---- MODULE Spec2Model ----
(***************************************************************************)
(* Model of the unsigned-varint codec of src/src/uvarint.rs.               *)
(*                                                                         *)
(* A u128 is modelled as the set of the positions of its one bits, a       *)
(* subset of 0..127 (bit 0 is the least significant): the values the       *)
(* codec is about reach 2^128 - 1.  Every u128 operation of the source is  *)
(* an operator on such sets, computed the way the hardware computes it.    *)
(* A u8 is an integer 0..255 and a Vec<u8> a sequence of them.             *)
(***************************************************************************)
EXTENDS Integers, Sequences, FiniteSets

VARIABLES num, enc, input, dec, reenc

vars == <<num, enc, input, dec, reenc>>

\* ------------------------------------------------------------------ bounds
\* values 0..MaxSmall are all enumerated as inputs of UVarInt::new
MaxSmall == 300
\* caller-supplied vectors of every length up to MaxHead over ByteSamples
MaxHead == 2
\* longest caller-supplied vector
MaxInputLen == 11

\* -------------------------------------------------------- program constants
BITS_PER_BYTE == 8
MAX_UVARINT_NUM_BYTES == 9
\* std::mem::size_of::<u128>()
SIZE_OF_U128 == 16
\* std::i8::MAX
I8_MAX == 127

U128_BITS == SIZE_OF_U128 * BITS_PER_BYTE

None == [tag |-> "None"]

\* ------------------------------------------------------------ u128 and u8
RECURSIVE Pow2(_)
Pow2(k) == IF k = 0 THEN 1 ELSE 2 * Pow2(k - 1)

\* the u128 whose numeric value is the natural n (n small enough for Pow2)
U128FromNat(n) == {p \in 0..30 : (n \div Pow2(p)) % 2 = 1}

\* the bits of a u8
BitsOfU8(b) == {p \in 0..(BITS_PER_BYTE - 1) : (b \div Pow2(p)) % 2 = 1}

RECURSIVE SumPow2(_)
SumPow2(S) ==
    IF S = {} THEN 0
    ELSE LET p == CHOOSE q \in S : TRUE IN Pow2(p) + SumPow2(S \ {p})

\* `x as u8`: truncation of a u128 to its low eight bits
AsU8(S) == SumPow2(S \cap (0..(BITS_PER_BYTE - 1)))

\* `x >> s` and `x << s` on u128 (s < 128)
Shr(S, s) == {p - s : p \in {q \in S : q >= s}}
Shl(S, s) == {q \in {p + s : p \in S} : q < U128_BITS}

\* a <= b on u128: equal, or the highest bit in which they differ is b's
U128Le(a, b) ==
    \/ a = b
    \/ LET d == (a \ b) \cup (b \ a)
           m == CHOOSE x \in d : \A y \in d : y <= x
       IN m \in b

\* u128::leading_zeros
leading_zeros(S) ==
    Cardinality({p \in 0..(U128_BITS - 1) : \A q \in p..(U128_BITS - 1) : q \notin S})

\* usize subtraction a - b.  An underflow is a panic in a build with overflow
\* checks and a wrap to 2^64 + (a - b) without them.
UsizeSub(a, b) ==
    IF a >= b THEN {[kind |-> "val", v |-> a - b]}
    ELSE {[kind |-> "panic", v |-> 0], [kind |-> "wrap", v |-> a - b]}

\* the bit length in place of the logarithm: the final - 1 left out
u128_log2_bitlen(n) == UsizeSub(U128_BITS, leading_zeros(n))

\* the outcomes of u128_log2(n): 128 - leading_zeros(n) - 1 in usize
u128_log2(n) ==
    UNION {UsizeSub(d.v, 1) : d \in UsizeSub(U128_BITS, leading_zeros(n))}

\* num_bytes with the eight bits of a byte as divisor
num_bytes_div8(l) ==
    IF l.kind = "wrap" THEN l
    ELSE [kind |-> "val", v |-> (l.v \div BITS_PER_BYTE) + 1]

\* num_bytes of to_bytes for one outcome l of u128_log2.  A wrapped l stands
\* for 2^64 + l.v >= 2^64 - 1, whose quotient by 7 is beyond every length;
\* it is kept symbolic as [kind |-> "wrap"].
num_bytes_of(l) ==
    IF l.kind = "wrap" THEN l
    ELSE [kind |-> "val", v |-> (l.v \div (BITS_PER_BYTE - 1)) + 1]

\* num_bytes > MAX_UVARINT_NUM_BYTES
exceeds_max(nb) == nb.kind = "wrap" \/ nb.v > MAX_UVARINT_NUM_BYTES

\* bytes[i] = (n | 0x80) as u8
emit_byte(n) == AsU8(n \cup {7})

\* the last byte left as the loop wrote it
clear_continuation_skipped(b) == b

\* bytes[i] &= 0x7f
clear_continuation(b) == b % 128

\* the byte-at-a-time loop of to_bytes: bytes written from remaining value n
\* for the indices i..nb-1 (0-based)
RECURSIVE encode_loop(_, _, _)
encode_loop(n, i, nb) ==
    IF i >= nb THEN <<>>
    ELSE IF i + 1 = nb THEN <<clear_continuation(emit_byte(n))>>
    ELSE <<emit_byte(n)>> \o encode_loop(Shr(n, 7), i + 1, nb)

\* UVarInt::new(num)
new(n) == [num |-> n]

\* to_bytes for one outcome l of u128_log2
to_bytes_with(uv, l) ==
    LET n == uv.num IN
    IF l.kind = "panic" THEN [tag |-> "Panic"]
    ELSE LET nb == num_bytes_of(l) IN
         IF exceeds_max(nb) THEN [tag |-> "Err"]
         ELSE IF U128Le(n, U128FromNat(I8_MAX)) THEN [tag |-> "Ok", bytes |-> <<AsU8(n)>>]
         ELSE [tag |-> "Ok", bytes |-> encode_loop(n, 0, nb.v)]

\* the outcomes of uv.to_bytes()
to_bytes(uv) == {to_bytes_with(uv, l) : l \in u128_log2(uv.num)}

\* the chunk masked with 0x3f
chunk_mask3f(b) == BitsOfU8(b) \cap (0..5)

\* k = (bytes[i] & 0x7f) as u128
chunk(b) == BitsOfU8(b) \cap (0..6)

\* chunks placed a whole byte apart
chunk_shift_byte(i) == i * BITS_PER_BYTE

\* i * 7, the shift of chunk i
chunk_shift(i) == i * (BITS_PER_BYTE - 1)

\* (bytes[i] & 0x80) == 0
is_terminator(b) == 7 \notin BitsOfU8(b)

\* the loop with `num = n` after it instead of at the terminator
RECURSIVE decode_loop_partial(_, _, _)
decode_loop_partial(bytes, i, n) ==
    IF i >= Len(bytes) THEN n
    ELSE LET n2 == n \cup Shl(chunk(bytes[i + 1]), chunk_shift(i)) IN
         IF is_terminator(bytes[i + 1]) THEN n2
         ELSE decode_loop_partial(bytes, i + 1, n2)

\* the loop of from_bytes from 0-based index i with accumulator n: the value
\* left in `num` when the loop ends
RECURSIVE decode_loop(_, _, _)
decode_loop(bytes, i, n) ==
    IF i >= Len(bytes) THEN {}
    ELSE LET n2 == n \cup Shl(chunk(bytes[i + 1]), chunk_shift(i)) IN
         IF is_terminator(bytes[i + 1]) THEN n2
         ELSE decode_loop(bytes, i + 1, n2)

\* the bounds check with >=
too_long_ge(bytes) == Len(bytes) >= MAX_UVARINT_NUM_BYTES

\* bytes.len() > MAX_UVARINT_NUM_BYTES
too_long(bytes) == Len(bytes) > MAX_UVARINT_NUM_BYTES

\* UVarInt::from_bytes(bytes)
from_bytes(bytes) ==
    IF too_long(bytes) THEN [tag |-> "Err"]
    ELSE [tag |-> "Ok", uv |-> new(decode_loop(bytes, 0, {}))]

\* ------------------------------------------------------------------ inputs
\* arguments of UVarInt::new: every small value, every power of two, every
\* 2^k - 1 and every 2^k + 1
Values ==
    {U128FromNat(n) : n \in 0..MaxSmall}
    \cup {{k} : k \in 0..(U128_BITS - 1)}
    \cup {0..k : k \in 0..(U128_BITS - 1)}
    \cup {{0, k} : k \in 1..(U128_BITS - 1)}

ByteSamples == {0, 1, 2, 127, 128, 129, 172, 255}
PadBytes == {0, 128, 255}

\* caller-supplied vectors: all short ones over ByteSamples, and long ones of
\* every length up to MaxInputLen with a chosen first, middle and last byte
Inputs ==
    UNION {[1..L -> ByteSamples] : L \in 0..MaxHead}
    \cup {[i \in 1..L |-> IF i = 1 THEN a ELSE IF i = L THEN z ELSE p] :
            L \in (MaxHead + 1)..MaxInputLen, a \in ByteSamples,
            z \in ByteSamples, p \in PadBytes}

\* ------------------------------------------------------------ state machine
\* A behaviour is one chain of calls.  It starts from a value handed to
\* UVarInt::new, or from a vector the caller will hand to from_bytes.
Init ==
    /\ enc = None
    /\ dec = None
    /\ reenc = None
    /\ \/ /\ num \in {[tag |-> "Some", uv |-> new(n)] : n \in Values}
          /\ input = None
       \/ /\ num = None
          /\ input \in {[tag |-> "Some", bytes |-> b] : b \in Inputs}

\* uv.to_bytes()
ToBytes ==
    /\ num.tag = "Some"
    /\ enc = None
    /\ enc' \in to_bytes(num.uv)
    /\ UNCHANGED <<num, input, dec, reenc>>

\* UVarInt::from_bytes(bytes) on the vector to_bytes returned
FromBytesEncoded ==
    /\ enc.tag = "Ok"
    /\ input = None
    /\ input' = [tag |-> "Some", bytes |-> enc.bytes]
    /\ dec' = from_bytes(enc.bytes)
    /\ UNCHANGED <<num, enc, reenc>>

\* UVarInt::from_bytes(bytes) on the vector of the caller
FromBytes ==
    /\ input.tag = "Some"
    /\ dec = None
    /\ dec' = from_bytes(input.bytes)
    /\ UNCHANGED <<num, enc, input, reenc>>

\* to_bytes() of the UVarInt from_bytes returned
ToBytesDecoded ==
    /\ dec.tag = "Ok"
    /\ reenc = None
    /\ reenc' \in to_bytes(dec.uv)
    /\ UNCHANGED <<num, enc, input, dec>>

Next ==
    \/ ToBytes
    \/ FromBytesEncoded
    \/ FromBytes
    \/ ToBytesDecoded

Spec == Init /\ [][Next]_vars

TypeOK ==
    /\ num = None \/ (num.tag = "Some" /\ num.uv.num \subseteq 0..(U128_BITS - 1))
    /\ input = None \/ (input.tag = "Some" /\ input.bytes \in Seq(0..255))
    /\ enc.tag \in {"None", "Ok", "Err", "Panic"}
    /\ dec.tag \in {"None", "Ok", "Err"}
    /\ reenc.tag \in {"None", "Ok", "Err", "Panic"}
\* ------------------------------------------------- vocabulary of the claims
\* n < 2^k
Lt2Pow(S, k) == S \subseteq 0..(k - 1)

\* the number of bits of the binary representation of n
BitLength(S) == IF S = {} THEN 0 ELSE (CHOOSE x \in S : \A y \in S : y <= x) + 1

\* floor(n / 2^(7*i)) mod 128
ChunkOf(S, i) == SumPow2({p - 7 * i : p \in S \cap ((7 * i)..(7 * i + 6))})

\* the numeric value of a u128 below 2^31
ToNat(S) == SumPow2(S)

Ok(bytes) == [tag |-> "Ok", bytes |-> bytes]

\* the value of the natural n, as UVarInt::new(n)
UV(n) == new(U128FromNat(n))

\* the literal vectors of the tests
Vectors ==
    { <<1, <<1>> >>, <<127, <<127>> >>, <<128, <<128, 1>> >>,
      <<255, <<255, 1>> >>, <<300, <<172, 2>> >>, <<16384, <<128, 128, 1>> >> }

\* the calls of to_bytes of the behaviour: <<receiver, result>>
EncCalls ==
    (IF enc # None THEN {<<num.uv, enc>>} ELSE {})
    \cup (IF reenc # None THEN {<<dec.uv, reenc>>} ELSE {})

\* the calls of to_bytes on the value the behaviour started from
FirstEncCalls == IF enc # None THEN {<<num.uv, enc>>} ELSE {}

\* 0-based index of the first byte with bit 7 clear, -1 without one
FirstTerminator(b) ==
    IF \E i \in 1..Len(b) : b[i] < 128
    THEN (CHOOSE i \in 1..Len(b) : b[i] < 128 /\ \A j \in 1..(i - 1) : b[j] >= 128) - 1
    ELSE -1

RECURSIVE ChunkSum(_, _)
\* sum over i in 0..t of (b[i] & 0x7f) * 2^(7*i)
ChunkSum(b, t) ==
    IF t < 0 THEN 0 ELSE (b[t + 1] % 128) * Pow2(7 * t) + ChunkSum(b, t - 1)

\* the byte vectors to_bytes produces
EncoderOutputs ==
    {e.bytes : e \in {x \in UNION {to_bytes(new(n)) : n \in Values} : x.tag = "Ok"}}

\* ... each with what from_bytes returns for it
EncoderDecoded == {<<b, from_bytes(b)>> : b \in EncoderOutputs}

\* tails appended after a terminator
Tails == {<<>>, <<0>>, <<1>>, <<128>>, <<255>>, <<255, 127>>, <<128, 0, 3>>}

\* ------------------------------------------------------------------ claims
\* C1: for every n < 2^63 to_bytes succeeds, and from_bytes of the bytes it
\* produced succeeds and returns a UVarInt equal to UVarInt::new(n).
C1_RoundTrip ==
    (num # None /\ Lt2Pow(num.uv.num, 63)) =>
        /\ enc # None => enc.tag = "Ok"
        /\ (enc # None /\ dec # None) => (dec.tag = "Ok" /\ dec.uv = num.uv)

\* C2: UVarInt::new(0).to_bytes() returns Ok with exactly the one byte 0x00;
\* it neither fails with OutOfRange nor aborts.
C2_EncodeZero ==
    \A c \in EncCalls : c[1] = UV(0) => c[2] = Ok(<<0>>)

\* C3: whenever to_bytes returns Ok(bytes), bytes has 1 to 9 elements, the low
\* 7 bits of bytes[i] are floor(n / 2^(7i)) mod 128, bit 7 is set on every
\* byte but the last and clear on the last; the literal vectors hold.
C3_WireFormat ==
    \A c \in EncCalls : c[2].tag = "Ok" =>
        LET n == c[1].num
            b == c[2].bytes
            L == Len(b)
        IN /\ L >= 1 /\ L <= 9
           /\ \A i \in 0..(L - 1) :
                /\ b[i + 1] \in 0..255
                /\ b[i + 1] % 128 = ChunkOf(n, i)
                /\ Lt2Pow(n, 31) => b[i + 1] % 128 = (ToNat(n) \div Pow2(7 * i)) % 128
                /\ i < L - 1 => b[i + 1] >= 128
                /\ i = L - 1 => b[i + 1] < 128
           /\ \A v \in Vectors : c[1] = UV(v[1]) => b = v[2]

C3_Witness ==
    /\ num # None /\ num.uv = UV(300) /\ enc = Ok(<<172, 2>>)

\* C4: whenever to_bytes returns Ok(bytes), Len(bytes) is the least k >= 1
\* with n < 2^(7k); a last byte after the first is non-zero.
C4_Minimal ==
    \A c \in EncCalls : c[2].tag = "Ok" =>
        LET n == c[1].num
            b == c[2].bytes
            L == Len(b)
        IN /\ L >= 1
           /\ Lt2Pow(n, 7 * L)
           /\ \A k \in 1..(L - 1) : ~Lt2Pow(n, 7 * k)
           /\ L > 1 => b[L] # 0
           /\ c[1] = UV(127) => L = 1
           /\ c[1] = UV(128) => L = 2
           /\ c[1] = UV(16383) => L = 2
           /\ c[1] = UV(16384) => L = 3

C4_Witness ==
    /\ num # None /\ num.uv = UV(16383) /\ enc.tag = "Ok" /\ Len(enc.bytes) = 2

\* C5: to_bytes returns Err(OutOfRange) if and only if n >= 2^63; every
\* n <= 2^63 - 1 is encoded successfully.
C5_RangeCheck ==
    \A c \in EncCalls :
        /\ c[2].tag = "Err" <=> ~Lt2Pow(c[1].num, 63)
        /\ Lt2Pow(c[1].num, 63) => c[2].tag = "Ok"

\* C6: from_bytes returns Err(OutOfRange) if and only if the input has more
\* than 9 bytes, whatever its first byte is; every input of 0 to 9 bytes
\* returns Ok.
C6_DecodeLength ==
    dec # None =>
        /\ dec.tag = "Err" <=> Len(input.bytes) > 9
        /\ Len(input.bytes) <= 9 => dec.tag = "Ok"

C6_Witness ==
    /\ dec.tag = "Err" /\ Len(input.bytes) = 10 /\ input.bytes[1] < 128

\* C7: for an input of at most 9 bytes whose first byte with bit 7 clear is at
\* index t, from_bytes returns the sum over i in 0..t of
\* (bytes[i] & 0x7f) * 2^(7i); the bytes after index t do not matter; the
\* literal vectors hold.
C7_Accumulate ==
    (dec # None /\ Len(input.bytes) <= 9 /\ FirstTerminator(input.bytes) >= 0) =>
        LET b == input.bytes
            t == FirstTerminator(b)
        IN /\ dec.tag = "Ok"
           /\ \A i \in 0..8 :
                ChunkOf(dec.uv.num, i) = (IF i <= t THEN b[i + 1] % 128 ELSE 0)
           /\ Lt2Pow(dec.uv.num, 63)
           /\ t <= 3 => (Lt2Pow(dec.uv.num, 31) /\ ToNat(dec.uv.num) = ChunkSum(b, t))
           /\ \A tail \in Tails :
                t + 1 + Len(tail) <= 9 =>
                    from_bytes(SubSeq(b, 1, t + 1) \o tail) = dec
           /\ \A v \in Vectors : b = v[2] => dec.uv = UV(v[1])

C7_Witness ==
    /\ dec.tag = "Ok" /\ input # None
    /\ input.bytes = <<172, 0, 0, 2>>
    /\ dec.uv = UV(44)

\* C8 as stated: two byte sequences from_bytes accepts with equal values are
\* the same sequence; to_bytes of a decoded value returns the decoded bytes.
C8_UniqueDecode ==
    dec.tag = "Ok" =>
        /\ \A b2 \in Inputs :
             (from_bytes(b2).tag = "Ok" /\ from_bytes(b2).uv = dec.uv) => b2 = input.bytes
        /\ reenc # None => reenc = Ok(input.bytes)

\* C8, amended: among the byte sequences to_bytes produces, two that
\* from_bytes decodes to equal values are the same sequence, and to_bytes of
\* the decoded value returns the sequence.
C8_UniqueEncoding ==
    (dec # None /\ input.bytes \in EncoderOutputs) =>
        /\ dec.tag = "Ok"
        /\ \A p \in EncoderDecoded : (p[2].tag = "Ok" /\ p[2].uv = dec.uv) => p[1] = input.bytes
        /\ reenc # None => reenc = Ok(input.bytes)

C8_Witness ==
    /\ num = None /\ input # None /\ input.bytes = <<128, 128, 1>>
    /\ dec.tag = "Ok" /\ reenc = Ok(<<128, 128, 1>>)

\* C9: for an input of 0 to 9 bytes in which every byte has bit 7 set (the
\* empty input included) from_bytes returns Ok with the value 0.
C9_Unterminated ==
    (dec # None /\ Len(input.bytes) <= 9 /\ FirstTerminator(input.bytes) < 0) =>
        (dec.tag = "Ok" /\ dec.uv = UV(0))

C9_Witness ==
    /\ dec.tag = "Ok" /\ input # None
    /\ Len(input.bytes) = 9 /\ FirstTerminator(input.bytes) < 0
    /\ input.bytes[1] = 255

\* C10 as stated, on the values n >= 1: the number of bytes of to_bytes is
\* floor(bit_length(n) / 7) + 1, and n is rejected exactly when that exceeds 9.
C10_BitLengthFormula ==
    \A c \in FirstEncCalls : c[1].num # {} =>
        LET nb == (BitLength(c[1].num) \div 7) + 1 IN
        /\ c[2].tag = "Ok" => Len(c[2].bytes) = nb
        /\ c[2].tag = "Err" <=> nb > 9

\* C10, amended: for n >= 1 the number of bytes to_bytes computes, and emits
\* on success, is floor((bit_length(n) - 1) / 7) + 1, and n is rejected
\* exactly when that exceeds 9.
C10_Log2Formula ==
    \A c \in EncCalls : c[1].num # {} =>
        LET nb == ((BitLength(c[1].num) - 1) \div 7) + 1 IN
        /\ \A l \in u128_log2(c[1].num) : num_bytes_of(l) = [kind |-> "val", v |-> nb]
        /\ c[2].tag = "Ok" => Len(c[2].bytes) = nb
        /\ c[2].tag = "Err" <=> nb > 9
        /\ c[2].tag \in {"Ok", "Err"}

C10_Witness ==
    /\ num # None /\ num.uv = UV(127) /\ enc = Ok(<<127>>)
====
